---- MODULE Spec2Model ----
\* Model of internal/usecase/chatcomplitionstream/completion.go:
\* ChatCompletionUseCase.Execute and createNewChat, together with the three
\* collaborators Execute talks to (the ChatGateway store, the OpenAI stream and
\* the uc.Stream channel).
EXTENDS Integers, Sequences, FiniteSets, TLC

\* ---------------------------------------------------------------- bounds
MaxCalls == 2          \* Execute calls started in one behaviour
MaxFragments == 2      \* fragments one provider stream yields before it ends
MaxChanCap == 1        \* largest buffer capacity of the uc.Stream channel
NumProcs == 2          \* goroutines that may call Execute

\* ------------------------------------------------------- input domains
AllProcs == 1 .. NumProcs
ChatIDs == {"c1", "c2"}
UserIDs == {"u1", "u2"}
\* Text is a sequence of characters, so that concatenation is computed.
UserTexts == {<<"h", "i">>}
SystemTexts == {<<"s">>}
\* The text the provider streams: the n-th fragment of a stream carries the n-th
\* letter, so that the order of receipt shows in every concatenation.
Letters == <<"a", "b", "c", "d", "e">>

VARIABLES
    procs,          \* the goroutines that call Execute in this behaviour
    store,          \* the ChatGateway's persisted chats: chat ID -> chat
    Stream,         \* uc.Stream: how many records the channel's buffer holds
    chanCap,        \* capacity the caller gave uc.Stream
    consumer,       \* whether a goroutine receives from uc.Stream
    calls,          \* Execute calls started so far
    pc,             \* position of each goroutine inside Execute
    input,          \* Execute's input argument
    chat,           \* Execute's local chat
    messages,       \* Execute's local messages (the request's message list)
    fullResponse,   \* Execute's strings.Builder
    r,              \* the record built at line 118, waiting to be sent
    nrecv,          \* fragments the current stream has yielded
    ret,            \* what Execute returned: out = <<>> is nil, err = "" is nil
    log,            \* the external operations of the current call, in order
    store0          \* the store as it was when the current call started

vars == <<procs, store, Stream, chanCap, consumer, calls, pc, input, chat,
          messages, fullResponse, r, nrecv, ret, log, store0>>

\* ------------------------------------------------------------- values
NilModel == [Name |-> "", MaxTokens |-> 0]
NilConfig == [Temperature |-> 0, TopP |-> 0, N |-> 0, Stop |-> <<>>,
              MaxTokens |-> 0, PresencePenalty |-> 0, FrequencyePenalty |-> 0,
              Model |-> NilModel]
NilChat == [ID |-> "", UserID |-> "", Messages |-> <<>>, Config |-> NilConfig]
NilOutput == [ChatID |-> "", UserID |-> "", Content |-> <<>>]
NilInput == [ChatID |-> "", UserID |-> "", UserMessage |-> <<>>,
             Config |-> [Model |-> "", ModelMaxToken |-> 0, Temperature |-> 0,
                         TopP |-> 0, N |-> 0, Stop |-> <<>>, MaxTokens |-> 0,
                         PresencePenalty |-> 0, FrequencyePenalty |-> 0,
                         InitialSystemMessage |-> <<>>]]
NilRet == [out |-> <<>>, err |-> ""]

\* The ChatCompletionConfigInputDTO values a caller passes.
ChatCompletionConfigInputDTO ==
    { [Model |-> "gpt", ModelMaxToken |-> 8, Temperature |-> 1, TopP |-> 2,
       N |-> 3, Stop |-> <<"stop">>, MaxTokens |-> 4, PresencePenalty |-> 5,
       FrequencyePenalty |-> 6, InitialSystemMessage |-> s] :
      s \in SystemTexts }

\* The ChatCompletionInputDTO values a caller passes.
ChatCompletionInputDTO ==
    { [ChatID |-> id, UserID |-> u, UserMessage |-> m, Config |-> c] :
      id \in ChatIDs, u \in UserIDs, m \in UserTexts,
      c \in ChatCompletionConfigInputDTO }

\* ChatCompletionOutputDTO
ChatCompletionOutputDTO(chatID, userID, content) ==
    [ChatID |-> chatID, UserID |-> userID, Content |-> content]

\* entity.NewMessage on success: a message of that role and content, with the
\* model it was validated under.
NewMessage(role, content, model) ==
    [Role |-> role, Content |-> content, Model |-> model]

\* chat.AddMessage on success: the message is appended to chat.Messages.
AddMessage(c, m) == [c EXCEPT !.Messages = Append(@, m)]

\* entity.NewModel
NewModel(name, maxTokens) == [Name |-> name, MaxTokens |-> maxTokens]

\* entity.NewChat on success: a chat of that user holding the initial message,
\* under the ID NewChat gave it.
NewChat(id, userID, initialMessage, chatConfig) ==
    [ID |-> id, UserID |-> userID, Messages |-> <<initialMessage>>,
     Config |-> chatConfig]

\* createNewChat seeding the chat with the user's text instead of
\* Config.InitialSystemMessage.
createNewChatFromUserMessage(in, id) ==
    LET model == NewModel(in.Config.Model, in.Config.ModelMaxToken)
    IN  NewChat(id, in.UserID, NewMessage("system", in.UserMessage, model),
                [Temperature |-> in.Config.Temperature,
                 TopP |-> in.Config.TopP,
                 N |-> in.Config.N,
                 Stop |-> in.Config.Stop,
                 MaxTokens |-> in.Config.MaxTokens,
                 PresencePenalty |-> in.Config.PresencePenalty,
                 FrequencyePenalty |-> in.Config.FrequencyePenalty,
                 Model |-> model])

\* createNewChat on success (id is the ID entity.NewChat gives the chat).
createNewChat(in, id) ==
    LET model == NewModel(in.Config.Model, in.Config.ModelMaxToken)
        chatConfig == [Temperature |-> in.Config.Temperature,
                       TopP |-> in.Config.TopP,
                       N |-> in.Config.N,
                       Stop |-> in.Config.Stop,
                       MaxTokens |-> in.Config.MaxTokens,
                       PresencePenalty |-> in.Config.PresencePenalty,
                       FrequencyePenalty |-> in.Config.FrequencyePenalty,
                       Model |-> model]
        initialMessage == NewMessage("system", in.Config.InitialSystemMessage,
                                     model)
    IN  NewChat(id, in.UserID, initialMessage, chatConfig)

\* The translation loop ranging over chat.Messages[1:].
BuildMessagesSkipsFirst(msgs) ==
    [i \in 1 .. Len(msgs) - 1 |->
        [Role |-> msgs[i + 1].Role, Content |-> msgs[i + 1].Content]]

\* Lines 81-87: the loop that translates chat.Messages for the provider.
RECURSIVE BuildMessages(_)
BuildMessages(msgs) ==
    IF msgs = <<>> THEN <<>>
    ELSE <<[Role |-> Head(msgs).Role, Content |-> Head(msgs).Content]>>
         \o BuildMessages(Tail(msgs))

\* Lines 91-101: the openai.ChatCompletionRequest.
ChatCompletionRequest(c, msgs) ==
    [Model |-> c.Config.Model.Name,
     Messages |-> msgs,
     MaxTokens |-> c.Config.MaxTokens,
     Temperature |-> c.Config.Temperature,
     TopP |-> c.Config.TopP,
     Stop |-> c.Config.Stop,
     PresencePenalty |-> c.Config.PresencePenalty,
     FrequencyPenalty |-> c.Config.PresencePenalty,
     Stream |-> FALSE]

\* The delta written in front of the text received so far.
WriteStringPrepends(builder, delta) == delta \o builder

\* The builder reset by every delta.
WriteStringOverwrites(builder, delta) == delta

\* Line 117: fullResponse.WriteString(delta).
WriteString(builder, delta) == builder \o delta

\* The user's text stored under the system role.
userMessageAsSystem(p) ==
    NewMessage("system", input[p].UserMessage, chat[p].Config.Model)

\* Line 72: the user message of this call.
userMessage(p) ==
    NewMessage("user", input[p].UserMessage, chat[p].Config.Model)

\* The provider's answer stored under the user role.
assistantAsUser(p) ==
    NewMessage("user", fullResponse[p], chat[p].Config.Model)

\* Line 126: the assistant message of this call.
assistant(p) ==
    NewMessage("assistant", fullResponse[p], chat[p].Config.Model)

\* The Delta.Content of the n-th fragment of a stream.
Delta(n) == <<Letters[((n - 1) % Len(Letters)) + 1]>>

\* The Choices lists (of Delta.Content values) the n-th fragment may carry: none
\* or one; the first fragment may also carry an empty delta.
Fragments(n) ==
    { <<>>, <<Delta(n)>> }
    \cup (IF n = 1 THEN { << <<>> >> } ELSE {})

\* IDs entity.NewChat may give a new chat: not persisted, not held by a call.
FreshIDs == { id \in ChatIDs : id \notin DOMAIN store
                               /\ \A q \in AllProcs : chat[q].ID # id }

\* The store after CreateChat or SaveChat persisted chat c.
Persist(c) == (c.ID :> c) @@ store

\* One collaborator call of Execute: what was called, with what, and how it
\* answered.
Event(op, arg, res) == [op |-> op, arg |-> arg, res |-> res]

Logged(p, events) == log' = [log EXCEPT ![p] = @ \o events]

\* return nil, errors.New(prefix + err.Error())
ReturnErr(p, prefix) ==
    /\ ret' = [ret EXCEPT ![p] = [out |-> <<>>, err |-> prefix]]
    /\ pc' = [pc EXCEPT ![p] = "done"]

Init ==
    /\ procs = {1}
    /\ store = <<>>
    /\ Stream = 0
    /\ chanCap \in 0 .. MaxChanCap
    /\ consumer \in BOOLEAN
    /\ calls = 0
    /\ pc = [p \in AllProcs |-> "idle"]
    /\ input = [p \in AllProcs |-> NilInput]
    /\ chat = [p \in AllProcs |-> NilChat]
    /\ messages = [p \in AllProcs |-> <<>>]
    /\ fullResponse = [p \in AllProcs |-> <<>>]
    /\ r = [p \in AllProcs |-> NilOutput]
    /\ nrecv = [p \in AllProcs |-> 0]
    /\ ret = [p \in AllProcs |-> NilRet]
    /\ log = [p \in AllProcs |-> <<>>]
    /\ store0 = [p \in AllProcs |-> <<>>]

\* A caller invokes Execute (line 54).
Call(p) ==
    /\ pc[p] \in {"idle", "done"}
    /\ calls < MaxCalls
    /\ \E in \in ChatCompletionInputDTO : input' = [input EXCEPT ![p] = in]
    /\ calls' = calls + 1
    /\ pc' = [pc EXCEPT ![p] = "find"]
    /\ chat' = [chat EXCEPT ![p] = NilChat]
    /\ messages' = [messages EXCEPT ![p] = <<>>]
    /\ fullResponse' = [fullResponse EXCEPT ![p] = <<>>]
    /\ r' = [r EXCEPT ![p] = NilOutput]
    /\ nrecv' = [nrecv EXCEPT ![p] = 0]
    /\ ret' = [ret EXCEPT ![p] = NilRet]
    /\ log' = [log EXCEPT ![p] = <<>>]
    /\ store0' = [store0 EXCEPT ![p] = store]
    /\ UNCHANGED <<procs, store, Stream, chanCap, consumer>>

\* Any lookup error taken for "chat not found".
FindErrorCreates(p) ==
    /\ Logged(p, <<Event("FindChatByID", input[p].ChatID, "error")>>)
    /\ pc' = [pc EXCEPT ![p] = "create"]
    /\ UNCHANGED <<chat, store, ret>>

\* The lookup tried again after an error.
FindErrorRetries(p) ==
    /\ Logged(p, <<Event("FindChatByID", input[p].ChatID, "error")>>)
    /\ UNCHANGED <<pc, chat, store, ret>>

\* Lines 68-70: FindChatByID failed with an error other than "chat not found".
FindError(p) ==
    /\ Logged(p, <<Event("FindChatByID", input[p].ChatID, "error")>>)
    /\ ReturnErr(p, "error fetching existing chat")
    /\ UNCHANGED <<chat, store>>

\* Lines 55-57 and 68-70: uc.ChatGateway.FindChatByID and the branch on err.
FindChatByID(p) ==
    /\ pc[p] = "find"
    /\ \/ /\ input[p].ChatID \in DOMAIN store
          /\ Logged(p, <<Event("FindChatByID", input[p].ChatID, "found")>>)
          /\ chat' = [chat EXCEPT ![p] = store[input[p].ChatID]]
          /\ pc' = [pc EXCEPT ![p] = "user"]
          /\ UNCHANGED <<ret, store>>
       \/ /\ input[p].ChatID \notin DOMAIN store
          /\ Logged(p, <<Event("FindChatByID", input[p].ChatID, "chat not found")>>)
          /\ pc' = [pc EXCEPT ![p] = "create"]
          /\ UNCHANGED <<chat, ret, store>>
       \/ FindError(p)
    /\ UNCHANGED <<procs, Stream, chanCap, consumer, calls, input,
                   messages, fullResponse, r, nrecv, store0>>

\* Lines 59-67: createNewChat, then uc.ChatGateway.CreateChat.
CreateChat(p) ==
    /\ pc[p] = "create"
    /\ \/ \* createNewChat fails (entity.NewMessage or entity.NewChat)
          /\ Logged(p, <<Event("createNewChat", input[p], "error")>>)
          /\ ReturnErr(p, "error creating new chat")
          /\ UNCHANGED <<chat, store>>
       \/ \E id \in FreshIDs :
             /\ chat' = [chat EXCEPT ![p] = createNewChat(input[p], id)]
             /\ \/ /\ Logged(p, <<Event("createNewChat", input[p], "ok"),
                                  Event("CreateChat", chat'[p], "ok")>>)
                   /\ store' = Persist(chat'[p])
                   /\ pc' = [pc EXCEPT ![p] = "user"]
                   /\ UNCHANGED ret
                \/ /\ Logged(p, <<Event("createNewChat", input[p], "ok"),
                                  Event("CreateChat", chat'[p], "error")>>)
                   /\ ReturnErr(p, "error persisting new chat")
                   /\ UNCHANGED store
    /\ UNCHANGED <<procs, Stream, chanCap, consumer, calls, input, messages,
                   fullResponse, r, nrecv, store0>>

\* The refusal of the user message ignored: Execute goes on to the request.
UserMessageInvalidIgnored(p) ==
    /\ \/ Logged(p, <<Event("NewMessage", "user", "error")>>)
       \/ Logged(p, <<Event("NewMessage", "user", "ok"),
                      Event("AddMessage", "user", "error")>>)
    /\ pc' = [pc EXCEPT ![p] = "request"]
    /\ UNCHANGED <<chat, ret>>

\* Lines 73-75 and 77-79: the user message was refused.
UserMessageInvalid(p) ==
    \/ /\ Logged(p, <<Event("NewMessage", "user", "error")>>)
       /\ ReturnErr(p, "error creating user message")
       /\ UNCHANGED chat
    \/ /\ Logged(p, <<Event("NewMessage", "user", "ok"),
                      Event("AddMessage", "user", "error")>>)
       /\ ReturnErr(p, "error adding new message")
       /\ UNCHANGED chat

\* Lines 72-79: the user message is created and added to the chat.
AddUserMessage(p) ==
    /\ pc[p] = "user"
    /\ \/ UserMessageInvalid(p)
       \/ /\ Logged(p, <<Event("NewMessage", "user", "ok"),
                         Event("AddMessage", "user", "ok")>>)
          /\ chat' = [chat EXCEPT ![p] = AddMessage(@, userMessage(p))]
          /\ pc' = [pc EXCEPT ![p] = "request"]
          /\ UNCHANGED ret
    /\ UNCHANGED <<procs, store, Stream, chanCap, consumer, calls, input,
                   messages, fullResponse, r, nrecv, store0>>

\* Lines 81-105: the request is built and CreateChatCompletionStream called.
CreateChatCompletionStream(p) ==
    /\ pc[p] = "request"
    /\ messages' = [messages EXCEPT ![p] = BuildMessages(chat[p].Messages)]
    /\ \/ /\ Logged(p, <<Event("CreateChatCompletionStream",
                               ChatCompletionRequest(chat[p], messages'[p]), "ok")>>)
          /\ pc' = [pc EXCEPT ![p] = "recv"]
          /\ UNCHANGED ret
       \/ /\ Logged(p, <<Event("CreateChatCompletionStream",
                               ChatCompletionRequest(chat[p], messages'[p]), "error")>>)
          /\ ReturnErr(p, "error creating chat completion")
    /\ UNCHANGED <<procs, store, Stream, chanCap, consumer, calls, input, chat,
                   fullResponse, r, nrecv, store0>>

\* Lines 111-113: resp.Recv answered io.EOF and the loop ends.
RecvEOF(p) ==
    /\ Logged(p, <<Event("Recv", <<>>, "EOF")>>)
    /\ pc' = [pc EXCEPT ![p] = "assistant"]
    /\ UNCHANGED <<fullResponse, r, nrecv, ret, chat, store>>

\* A receive error ending the loop as io.EOF does.
RecvErrorBreaks(p) ==
    /\ Logged(p, <<Event("Recv", <<>>, "error")>>)
    /\ pc' = [pc EXCEPT ![p] = "assistant"]
    /\ UNCHANGED <<fullResponse, r, nrecv, ret, chat, store>>

\* A receive error after which the chat built so far is saved.
RecvErrorSavesChat(p) ==
    /\ Logged(p, <<Event("Recv", <<>>, "error")>>)
    /\ ReturnErr(p, "error straming response")
    /\ store' = Persist(chat[p])
    /\ UNCHANGED <<fullResponse, r, nrecv, chat>>

\* Lines 114-116: resp.Recv answered another error.
RecvError(p) ==
    /\ Logged(p, <<Event("Recv", <<>>, "error")>>)
    /\ ReturnErr(p, "error straming response")
    /\ UNCHANGED <<fullResponse, r, nrecv, chat, store>>

\* Lines 117-122: resp.Recv answered a fragment carrying the list choices.
RecvFragment(p, choices) ==
    /\ Logged(p, <<Event("Recv", choices, "fragment")>>)
    /\ nrecv' = [nrecv EXCEPT ![p] = @ + 1]
    /\ IF Len(choices) = 0
       THEN \* response.Choices[0]: index out of range, the goroutine panics
            /\ pc' = [pc EXCEPT ![p] = "panic"]
            /\ UNCHANGED <<fullResponse, r>>
       ELSE /\ fullResponse' = [fullResponse EXCEPT ![p] =
                                  WriteString(@, choices[1])]
            /\ r' = [r EXCEPT ![p] = ChatCompletionOutputDTO(
                        chat[p].ID, chat[p].UserID, fullResponse'[p])]
            /\ pc' = [pc EXCEPT ![p] = "send"]
    /\ UNCHANGED <<ret, chat, store>>

\* Lines 109-122: one turn of the loop up to the send.
Recv(p) ==
    /\ pc[p] = "recv"
    /\ \/ RecvEOF(p)
       \/ RecvError(p)
       \/ /\ nrecv[p] < MaxFragments
          /\ \E choices \in Fragments(nrecv[p] + 1) : RecvFragment(p, choices)
    /\ UNCHANGED <<procs, Stream, chanCap, consumer, calls, input, messages,
                   store0>>

\* A send that gives up (select with a default case) when it would block.
SendNonBlocking(p) ==
    /\ pc[p] = "send"
    /\ \/ /\ Stream < chanCap
          /\ Stream' = Stream + 1
          /\ Logged(p, <<Event("Send", r[p], "ok")>>)
       \/ /\ chanCap = 0
          /\ consumer
          /\ Logged(p, <<Event("Send", r[p], "ok")>>)
          /\ UNCHANGED Stream
       \/ /\ Stream >= chanCap
          /\ UNCHANGED <<Stream, log>>
    /\ pc' = [pc EXCEPT ![p] = "recv"]
    /\ UNCHANGED <<procs, store, chanCap, consumer, calls, input, chat,
                   messages, fullResponse, r, nrecv, ret, store0>>

\* Line 123: uc.Stream <- r, which completes when the channel's buffer has a
\* free slot or, the channel being unbuffered, a receiver takes the record.
Send(p) ==
    /\ pc[p] = "send"
    /\ \/ /\ Stream < chanCap
          /\ Stream' = Stream + 1
       \/ /\ chanCap = 0
          /\ consumer
          /\ UNCHANGED Stream
    /\ Logged(p, <<Event("Send", r[p], "ok")>>)
    /\ pc' = [pc EXCEPT ![p] = "recv"]
    /\ UNCHANGED <<procs, store, chanCap, consumer, calls, input, chat,
                   messages, fullResponse, r, nrecv, ret, store0>>

\* The caller's goroutine receives one buffered record from uc.Stream.
Consume ==
    /\ consumer
    /\ Stream > 0
    /\ Stream' = Stream - 1
    /\ UNCHANGED <<procs, store, chanCap, consumer, calls, pc, input, chat,
                   messages, fullResponse, r, nrecv, ret, log, store0>>

\* Lines 126-134: the assistant message is created and added to the chat.
AddAssistantMessage(p) ==
    /\ pc[p] = "assistant"
    /\ \/ /\ Logged(p, <<Event("NewMessage", "assistant", "error")>>)
          /\ ReturnErr(p, "error creating assistant message")
          /\ UNCHANGED chat
       \/ /\ Logged(p, <<Event("NewMessage", "assistant", "ok"),
                         Event("AddMessage", "assistant", "error")>>)
          /\ ReturnErr(p, "error adding new mesage")
          /\ UNCHANGED chat
       \/ /\ Logged(p, <<Event("NewMessage", "assistant", "ok"),
                         Event("AddMessage", "assistant", "ok")>>)
          /\ chat' = [chat EXCEPT ![p] = AddMessage(@, assistant(p))]
          /\ pc' = [pc EXCEPT ![p] = "save"]
          /\ UNCHANGED ret
    /\ UNCHANGED <<procs, store, Stream, chanCap, consumer, calls, input,
                   messages, fullResponse, r, nrecv, store0>>

\* Lines 136-144: uc.ChatGateway.SaveChat and the return of the result.
SaveChat(p) ==
    /\ pc[p] = "save"
    /\ \/ /\ Logged(p, <<Event("SaveChat", chat[p], "ok")>>)
          /\ store' = Persist(chat[p])
          /\ ret' = [ret EXCEPT ![p] =
                       [out |-> <<ChatCompletionOutputDTO(input[p].ChatID,
                                     chat[p].UserID, fullResponse[p])>>,
                        err |-> ""]]
          /\ pc' = [pc EXCEPT ![p] = "done"]
       \/ /\ Logged(p, <<Event("SaveChat", chat[p], "error")>>)
          /\ ReturnErr(p, "error saving chat")
          /\ UNCHANGED store
    /\ UNCHANGED <<procs, Stream, chanCap, consumer, calls, input, chat,
                   messages, fullResponse, r, nrecv, store0>>

Next ==
    \/ \E p \in procs : Call(p)
    \/ \E p \in procs : FindChatByID(p)
    \/ \E p \in procs : CreateChat(p)
    \/ \E p \in procs : AddUserMessage(p)
    \/ \E p \in procs : CreateChatCompletionStream(p)
    \/ \E p \in procs : Recv(p)
    \/ \E p \in procs : Send(p)
    \/ \E p \in procs : AddAssistantMessage(p)
    \/ \E p \in procs : SaveChat(p)
    \/ Consume

Spec == Init /\ [][Next]_vars

\* ------------------------------------------------------- reading the log
Last(seq) == seq[Len(seq)]
Front(seq) == SubSeq(seq, 1, Len(seq) - 1)

\* The calls of collaborator op the current Execute call of p made, in order.
Ops(p, op) == SelectSeq(log[p], LAMBDA e : e.op = op)

\* Collaborator op answered res at some point of the current call of p.
Answered(p, op, res) ==
    \E i \in DOMAIN log[p] : log[p][i].op = op /\ log[p][i].res = res

\* The same, for a collaborator called with the role of a message.
AnsweredFor(p, op, role, res) ==
    \E i \in DOMAIN log[p] :
        log[p][i].op = op /\ log[p][i].arg = role /\ log[p][i].res = res

\* Position in the log of the first call of op (0 when there is none).
FirstAt(p, op) ==
    IF \E i \in DOMAIN log[p] : log[p][i].op = op
    THEN CHOOSE i \in DOMAIN log[p] :
            /\ log[p][i].op = op
            /\ \A j \in 1 .. i - 1 : log[p][j].op # op
    ELSE 0

ReturnedErr(p) == pc[p] = "done" /\ ret[p].err # "" /\ ret[p].out = <<>>
ReturnedResult(p) == pc[p] = "done" /\ ret[p].err = "" /\ Len(ret[p].out) = 1

\* The deltas of the fragments the current call received, in receipt order.
ReceivedDeltas(p) ==
    LET frags == SelectSeq(log[p], LAMBDA e : e.op = "Recv" /\ e.res = "fragment"
                                              /\ Len(e.arg) > 0)
    IN  [i \in 1 .. Len(frags) |-> frags[i].arg[1]]

RECURSIVE Concat(_)
Concat(texts) ==
    IF texts = <<>> THEN <<>> ELSE Head(texts) \o Concat(Tail(texts))

RoleContent(m) == <<m.Role, m.Content>>

\* ------------------------------------------------------------------ C1
\* C1: once resp.Recv has answered an error other than io.EOF, after any number
\* of fragments, Execute has returned an error and no result, no assistant
\* message was created or appended, and SaveChat was not invoked in the call.
C1_RecvErrorAborts ==
    \A p \in procs :
        Answered(p, "Recv", "error") =>
            /\ ReturnedErr(p)
            /\ Ops(p, "SaveChat") = <<>>
            /\ ~ \E i \in DOMAIN log[p] :
                    log[p][i].op \in {"NewMessage", "AddMessage"}
                    /\ log[p][i].arg = "assistant"
            /\ Last(chat[p].Messages).Role # "assistant"

\* A receive error after two fragments were received and sent.
C1_Witness ==
    \E p \in procs :
        /\ Answered(p, "Recv", "error")
        /\ Len(Ops(p, "Send")) = 2
        /\ pc[p] = "done"

\* ------------------------------------------------------------------ C2
\* C2: when the stream ended with io.EOF after N fragments and Execute returned
\* a result, the result's Content is the concatenation of the N deltas in
\* receipt order, and the assistant message appended to the chat and passed to
\* SaveChat has exactly that content.
C2_FinalContentIsConcatenation ==
    \A p \in procs :
        ReturnedResult(p) =>
            LET text == Concat(ReceivedDeltas(p))
                saved == Ops(p, "SaveChat")
            IN  /\ Answered(p, "Recv", "EOF")
                /\ ret[p].out[1].Content = text
                /\ RoleContent(Last(chat[p].Messages)) = <<"assistant", text>>
                /\ Len(saved) = 1
                /\ RoleContent(Last(saved[1].arg.Messages)) = <<"assistant", text>>

\* A successful call that received the two deltas "a" and "b".
C2_Witness ==
    \E p \in procs :
        /\ ReturnedResult(p)
        /\ Len(ReceivedDeltas(p)) = 2
        /\ ret[p].out[1].Content = <<"a", "b">>

\* ------------------------------------------------------------------ C3
\* C3: within one call the contents sent on uc.Stream grow by prefix: the first
\* equals the first fragment's delta, and each later one is the content sent
\* before it followed by the next fragment's delta.
C3_PartialResultsGrowByPrefix ==
    \A p \in procs :
        LET sent == Ops(p, "Send")
            deltas == ReceivedDeltas(p)
        IN  /\ Len(sent) <= Len(deltas)
            /\ \A i \in 1 .. Len(sent) :
                  sent[i].arg.Content =
                     IF i = 1 THEN deltas[1]
                     ELSE sent[i - 1].arg.Content \o deltas[i]

\* Two partial results were sent, the second longer than the first.
C3_Witness ==
    \E p \in procs :
        LET sent == Ops(p, "Send")
        IN  /\ Len(sent) = 2
            /\ sent[1].arg.Content = <<"a">>
            /\ sent[2].arg.Content = <<"a", "b">>

\* ------------------------------------------------------------------ C4
\* The chat Execute creates holds exactly the system message built from
\* Config.InitialSystemMessage.
SeededWithSystemMessage(p, c) ==
    /\ Len(c.Messages) = 1
    /\ RoleContent(c.Messages[1]) =
          <<"system", input[p].Config.InitialSystemMessage>>

\* C4 as stated: a call in which FindChatByID answered "chat not found" has,
\* when it returns, invoked CreateChat exactly once.
C4_AsStated ==
    \A p \in procs :
        (pc[p] = "done" /\ Answered(p, "FindChatByID", "chat not found")) =>
            Len(Ops(p, "CreateChat")) = 1

\* C4: when FindChatByID answered "chat not found", CreateChat is invoked at
\* most once; if createNewChat succeeded it is invoked exactly once, with a
\* chat holding only the system message built from Config.InitialSystemMessage,
\* before the user message is created or appended and before the provider is
\* called; if createNewChat failed it is not invoked and Execute returns an
\* error.
C4_CreatesOnceBeforeProceeding ==
    \A p \in procs :
        Answered(p, "FindChatByID", "chat not found") =>
            LET created == Ops(p, "CreateChat")
            IN  /\ Len(created) <= 1
                /\ Answered(p, "createNewChat", "ok") =>
                      /\ Len(created) = 1
                      /\ SeededWithSystemMessage(p, created[1].arg)
                      /\ \A i \in DOMAIN log[p] :
                            log[p][i].op \in {"NewMessage", "AddMessage",
                                              "CreateChatCompletionStream"}
                               => FirstAt(p, "CreateChat") < i
                /\ Answered(p, "createNewChat", "error") =>
                      created = <<>> /\ ReturnedErr(p)
                /\ pc[p] \in {"user", "request", "recv", "send", "assistant",
                              "save", "panic"} => Len(created) = 1

\* A call that created the chat and went on to call the provider.
C4_Witness ==
    \E p \in procs :
        /\ Answered(p, "FindChatByID", "chat not found")
        /\ Answered(p, "CreateChat", "ok")
        /\ Answered(p, "CreateChatCompletionStream", "ok")

\* ------------------------------------------------------------------ C5
\* C5: when FindChatByID returned an existing chat, CreateChat is never
\* invoked, and on success the sequence passed to SaveChat is the chat's
\* previous message sequence followed by the new user message and then the new
\* assistant message, nothing else added, removed or reordered.
C5_ExistingChatIsExtended ==
    \A p \in procs :
        Answered(p, "FindChatByID", "found") =>
            /\ Ops(p, "CreateChat") = <<>>
            /\ Ops(p, "createNewChat") = <<>>
            /\ ReturnedResult(p) =>
                  LET before == store0[p][input[p].ChatID].Messages
                      saved == Ops(p, "SaveChat")[1].arg.Messages
                      n == Len(before)
                  IN  /\ Len(saved) = n + 2
                      /\ SubSeq(saved, 1, n) = before
                      /\ RoleContent(saved[n + 1]) =
                            <<"user", input[p].UserMessage>>
                      /\ RoleContent(saved[n + 2]) =
                            <<"assistant", ret[p].out[1].Content>>

\* A successful round on a chat that already held a full earlier round.
C5_Witness ==
    \E p \in procs :
        /\ Answered(p, "FindChatByID", "found")
        /\ ReturnedResult(p)
        /\ Len(store0[p][input[p].ChatID].Messages) = 3
        /\ ret[p].out[1].Content # <<>>

\* ------------------------------------------------------------------ C6
\* C6: when FindChatByID failed with an error other than "chat not found",
\* Execute has returned the error "error fetching existing chat" and no result
\* with FindChatByID its only collaborator call: CreateChat, the provider,
\* uc.Stream and SaveChat were not used.
C6_LookupErrorAborts ==
    \A p \in procs :
        Answered(p, "FindChatByID", "error") =>
            /\ ReturnedErr(p)
            /\ ret[p].err = "error fetching existing chat"
            /\ Len(log[p]) = 1
            /\ \A op \in {"createNewChat", "CreateChat", "SaveChat", "Send",
                          "CreateChatCompletionStream", "Recv"} :
                  Ops(p, op) = <<>>

\* A lookup that failed although the chat is persisted.
C6_Witness ==
    \E p \in procs :
        /\ Answered(p, "FindChatByID", "error")
        /\ input[p].ChatID \in DOMAIN store
        /\ pc[p] = "done"

\* ------------------------------------------------------------------ C7
\* The user message was refused by entity.NewMessage or by chat.AddMessage.
UserMessageRefused(p) ==
    \/ AnsweredFor(p, "NewMessage", "user", "error")
    \/ AnsweredFor(p, "AddMessage", "user", "error")

\* C7: when creating or appending the user message failed, Execute has returned
\* an error and no result, and in that call the provider was not called,
\* nothing was sent on uc.Stream and SaveChat was not invoked.
C7_InvalidUserMessageAborts ==
    \A p \in procs :
        UserMessageRefused(p) =>
            /\ ReturnedErr(p)
            /\ ret[p].err \in {"error creating user message",
                               "error adding new message"}
            /\ \A op \in {"CreateChatCompletionStream", "Recv", "Send",
                          "SaveChat"} :
                  Ops(p, op) = <<>>

\* chat.AddMessage refused the user message of a call on an existing chat.
C7_Witness ==
    \E p \in procs :
        /\ AnsweredFor(p, "AddMessage", "user", "error")
        /\ Answered(p, "FindChatByID", "found")
        /\ pc[p] = "done"

\* ------------------------------------------------------------------ C8
\* C8: in every call SaveChat is invoked at most once, and only after the
\* stream ended with io.EOF, one partial result per received fragment was sent
\* on uc.Stream, and the assistant message was appended; a call that returned a
\* result invoked SaveChat exactly once, successfully.
C8_SavedOnceAtTheEnd ==
    \A p \in procs :
        LET saved == Ops(p, "SaveChat")
            at == FirstAt(p, "SaveChat")
        IN  /\ Len(saved) <= 1
            /\ Len(saved) = 1 =>
                  /\ at = Len(log[p])
                  /\ Answered(p, "Recv", "EOF")
                  /\ ~ Answered(p, "Recv", "error")
                  /\ Len(Ops(p, "Send")) = Len(ReceivedDeltas(p))
                  /\ Len(Ops(p, "Send")) = nrecv[p]
                  /\ AnsweredFor(p, "AddMessage", "assistant", "ok")
                  /\ Last(saved[1].arg.Messages).Role = "assistant"
            /\ ReturnedResult(p) => Len(saved) = 1 /\ saved[1].res = "ok"
            /\ pc[p] = "done" /\ Answered(p, "SaveChat", "ok") => ReturnedResult(p)

\* SaveChat was invoked after two partial results had been sent.
C8_Witness ==
    \E p \in procs :
        /\ Len(Ops(p, "SaveChat")) = 1
        /\ Len(Ops(p, "Send")) = 2

\* ------------------------------------------------------------------ C9
\* The store differs from old only by one new chat that holds just the initial
\* system message of the call of p.
OnlyNewSeededChat(p, old) ==
    \E id \in DOMAIN store :
        /\ id \notin DOMAIN old
        /\ DOMAIN store = DOMAIN old \cup {id}
        /\ \A other \in DOMAIN old : store[other] = old[other]
        /\ SeededWithSystemMessage(p, store[id])

\* C9: whenever Execute returned an error, the persisted state is what it was
\* before the call, or differs from it only by one newly created chat that
\* holds just the initial system message; the user and assistant messages of a
\* failed round are not persisted.
C9_FailedRoundPersistsNothing ==
    \A p \in procs :
        (pc[p] = "done" /\ ret[p].err # "") =>
            \/ store = store0[p]
            \/ OnlyNewSeededChat(p, store0[p])

\* A round that created its chat and then failed while draining the stream.
C9_Witness ==
    \E p \in procs :
        /\ pc[p] = "done" /\ ret[p].err # ""
        /\ store # store0[p]
        /\ Answered(p, "Recv", "error")
        /\ Len(Ops(p, "Send")) >= 1

\* ----------------------------------------------------------------- C10
\* The chat's messages as they were when the request was built.
MessagesAtRequest(p) ==
    IF AnsweredFor(p, "AddMessage", "assistant", "ok")
    THEN Front(chat[p].Messages)
    ELSE chat[p].Messages

\* C10: the message list sent to the provider has the length of the chat's
\* message sequence after the user message was appended, its i-th entry has the
\* role and content of the chat's i-th message, and its last entry is the
\* user message just appended.
C10_RequestMirrorsConversation ==
    \A p \in procs :
        \A i \in DOMAIN log[p] :
            log[p][i].op = "CreateChatCompletionStream" =>
                LET sent == log[p][i].arg.Messages
                    conv == MessagesAtRequest(p)
                IN  /\ Len(sent) = Len(conv)
                    /\ \A k \in 1 .. Len(sent) :
                          /\ sent[k].Role = conv[k].Role
                          /\ sent[k].Content = conv[k].Content
                          /\ DOMAIN sent[k] = {"Role", "Content"}
                    /\ sent = messages[p]
                    /\ sent # <<>>
                    /\ sent[Len(sent)] =
                          [Role |-> "user", Content |-> input[p].UserMessage]

\* A request carrying an earlier round and the new user message.
C10_Witness ==
    \E p \in procs :
        /\ Answered(p, "CreateChatCompletionStream", "ok")
        /\ Len(messages[p]) = 4
        /\ messages[p][1].Role = "system"
        /\ messages[p][3].Role = "assistant"
        /\ messages[p][3].Content # <<>>

\* ----------------------------------------------------------------- C11
\* C11: every sampling parameter of the request sent to the provider equals the
\* same-named field of the chat's Config; in particular the request's frequency
\* penalty is the Config's frequency penalty.
C11_RequestCarriesConfiguration ==
    \A p \in procs :
        \A i \in DOMAIN log[p] :
            log[p][i].op = "CreateChatCompletionStream" =>
                LET req == log[p][i].arg
                    cfg == chat[p].Config
                IN  /\ req.Model = cfg.Model.Name
                    /\ req.MaxTokens = cfg.MaxTokens
                    /\ req.Temperature = cfg.Temperature
                    /\ req.TopP = cfg.TopP
                    /\ req.Stop = cfg.Stop
                    /\ req.PresencePenalty = cfg.PresencePenalty
                    /\ req.FrequencyPenalty = cfg.FrequencyePenalty

\* ----------------------------------------------------------------- C12
\* uc.Stream has no free buffer slot and nobody receives from it.
SinkStuck == ~ consumer /\ Stream >= chanCap

\* The call of p is at the send of line 123 and the send cannot complete.
BlockedAtSend(p) == pc[p] = "send" /\ SinkStuck

\* C12: with a sink that has no free buffer slot and no consumer, a call that
\* holds a fragment it has not sent yet has not appended the assistant message,
\* has not invoked SaveChat and has not returned; and a call blocked at the
\* send stays blocked there, without any further collaborator call, for ever.
C12_BlockedSendNeverCompletes ==
    /\ [](\A p \in procs :
            (SinkStuck /\ nrecv[p] > Len(Ops(p, "Send"))) =>
                /\ pc[p] # "done"
                /\ ret[p] = NilRet
                /\ Ops(p, "SaveChat") = <<>>
                /\ ~ AnsweredFor(p, "AddMessage", "assistant", "ok")
                /\ ~ AnsweredFor(p, "NewMessage", "assistant", "ok"))
    /\ [][\A p \in procs :
            BlockedAtSend(p) =>
                /\ BlockedAtSend(p)'
                /\ log'[p] = log[p]
                /\ chat'[p] = chat[p]
                /\ store' = store]_vars

\* A call that sent one record into the one buffer slot and is blocked at the
\* send of its second record.
C12_Witness ==
    \E p \in procs :
        /\ BlockedAtSend(p)
        /\ Len(Ops(p, "Send")) = 1
        /\ nrecv[p] = 2

\* ----------------------------------------------------------------- C13
\* One system message followed by zero or more (user, assistant) pairs.
SystemThenPairs(msgs) ==
    /\ Len(msgs) >= 1
    /\ Len(msgs) % 2 = 1
    /\ msgs[1].Role = "system"
    /\ \A i \in 2 .. Len(msgs) :
          msgs[i].Role = IF i % 2 = 0 THEN "user" ELSE "assistant"

IsPrefix(short, long) ==
    /\ Len(short) <= Len(long)
    /\ SubSeq(long, 1, Len(short)) = short

\* C13: with calls that run one at a time, whatever step they fail at, every
\* persisted chat's message sequence is one system message followed by (user,
\* assistant) pairs; persisted chats are never removed, and every write of a
\* chat keeps its previously persisted sequence as a prefix, a successful
\* call's save adding exactly one (user, assistant) pair.
C13_PersistedSequenceIsAppendOnly ==
    /\ [](\A id \in DOMAIN store :
            /\ store[id].ID = id
            /\ SystemThenPairs(store[id].Messages))
    /\ [][\A id \in DOMAIN store :
            /\ id \in DOMAIN store'
            /\ IsPrefix(store[id].Messages, store'[id].Messages)
            /\ store'[id] # store[id] =>
                  Len(store'[id].Messages) = Len(store[id].Messages) + 2]_vars

\* Two rounds persisted in one chat, one after the other.
C13_Witness ==
    \E id \in DOMAIN store :
        /\ Len(store[id].Messages) = 5
        /\ store[id].Messages[3].Content # store[id].Messages[5].Content

\* ----------------------------------------------------------------- C14
\* C14: in one call FindChatByID is invoked exactly once (once the call is past
\* it), and CreateChat, the provider's CreateChatCompletionStream and SaveChat
\* at most once each; a collaborator that answered an error is the last one
\* the call used, and the call has returned an error and no result.
C14_NoRetries ==
    \A p \in procs :
        /\ Len(Ops(p, "FindChatByID")) = IF pc[p] \in {"idle", "find"} THEN 0 ELSE 1
        /\ Len(Ops(p, "createNewChat")) <= 1
        /\ Len(Ops(p, "CreateChat")) <= 1
        /\ Len(Ops(p, "CreateChatCompletionStream")) <= 1
        /\ Len(Ops(p, "SaveChat")) <= 1
        /\ \A i \in DOMAIN log[p] :
              log[p][i].res = "error" =>
                  /\ i = Len(log[p])
                  /\ ReturnedErr(p)
        /\ ReturnedErr(p) => Last(log[p]).res = "error"

\* A call whose SaveChat failed: every collaborator was used once.
C14_Witness ==
    \E p \in procs :
        /\ Answered(p, "SaveChat", "error")
        /\ Answered(p, "CreateChat", "ok")
        /\ Len(Ops(p, "Send")) >= 1
        /\ pc[p] = "done"

\* ----------------------------------------------------------------- C15
\* C15: when a call with conversation ID X that found no record has returned a
\* result and the next call carries X again, the chat the first call created
\* and saved is persisted under X, so that the lookup of the later call
\* returns it instead of reporting "chat not found" again.
C15_LaterCallFindsCreatedChat ==
    [][\A p \in procs :
          ( /\ ReturnedResult(p)
            /\ Answered(p, "FindChatByID", "chat not found")
            /\ pc'[p] = "find"
            /\ input'[p].ChatID = input[p].ChatID )
          => /\ input[p].ChatID \in DOMAIN store
             /\ store[input[p].ChatID] = chat[p]]_vars

\* ----------------------------------------------------------------- C16
\* C16: when a call returned a result, the ChatID and UserID of the result are
\* those of every partial result the call sent on uc.Stream, whether the chat
\* existed or was created by the call.
C16_ResultIdentifiesAsPartialResults ==
    \A p \in procs :
        ReturnedResult(p) =>
            \A i \in DOMAIN log[p] :
                log[p][i].op = "Send" =>
                    /\ log[p][i].arg.ChatID = ret[p].out[1].ChatID
                    /\ log[p][i].arg.UserID = ret[p].out[1].UserID

\* ----------------------------------------------------------------- C17
\* A chat persisted by an earlier call: created for user u and not yet extended.
ExistingChats ==
    { createNewChat([ChatID |-> id, UserID |-> u, UserMessage |-> m, Config |-> c],
                    id) :
      id \in {"c1"}, u \in {"u1"}, m \in UserTexts,
      c \in ChatCompletionConfigInputDTO }

\* Two goroutines share the use case, an unbuffered uc.Stream with a receiver,
\* and a store that holds one chat.
InitConcurrent ==
    /\ procs = {1, 2}
    /\ \E c \in ExistingChats : store = (c.ID :> c)
    /\ Stream = 0
    /\ chanCap = 0
    /\ consumer = TRUE
    /\ calls = 0
    /\ pc = [p \in AllProcs |-> "idle"]
    /\ input = [p \in AllProcs |-> NilInput]
    /\ chat = [p \in AllProcs |-> NilChat]
    /\ messages = [p \in AllProcs |-> <<>>]
    /\ fullResponse = [p \in AllProcs |-> <<>>]
    /\ r = [p \in AllProcs |-> NilOutput]
    /\ nrecv = [p \in AllProcs |-> 0]
    /\ ret = [p \in AllProcs |-> NilRet]
    /\ log = [p \in AllProcs |-> <<>>]
    /\ store0 = [p \in AllProcs |-> <<>>]

\* A caller invokes Execute for a conversation that is persisted.
CallExisting(p) ==
    /\ Call(p)
    /\ input'[p].ChatID \in DOMAIN store

NextConcurrent ==
    \/ \E p \in procs : CallExisting(p)
    \/ \E p \in procs : FindChatByID(p)
    \/ \E p \in procs : AddUserMessage(p)
    \/ \E p \in procs : CreateChatCompletionStream(p)
    \/ \E p \in procs : Recv(p)
    \/ \E p \in procs : Send(p)
    \/ \E p \in procs : AddAssistantMessage(p)
    \/ \E p \in procs : SaveChat(p)

\* Execute called from two goroutines at once on persisted conversations.
SpecConcurrent == InitConcurrent /\ [][NextConcurrent]_vars

\* The message sequence the call of p passed to SaveChat.
Saved(p) == Ops(p, "SaveChat")[1].arg.Messages

\* Both p and q returned a result for the same conversation, which existed.
BothSucceededOn(p, q) ==
    /\ p # q
    /\ ReturnedResult(p) /\ ReturnedResult(q)
    /\ Answered(p, "FindChatByID", "found")
    /\ Answered(q, "FindChatByID", "found")
    /\ input[p].ChatID = input[q].ChatID

\* C17 as stated: when two calls on the same existing conversation both
\* returned a result, the persisted conversation holds the messages of both
\* rounds: what each of them saved is a prefix of it.
C17_AsStated ==
    \A p, q \in procs :
        BothSucceededOn(p, q) =>
            /\ IsPrefix(Saved(p), store[input[p].ChatID].Messages)
            /\ IsPrefix(Saved(q), store[input[p].ChatID].Messages)

\* C17: when two calls on the same existing conversation both returned a
\* result, the persisted conversation is the sequence one of them passed to
\* SaveChat, which is what that call's lookup returned followed by its own user
\* and assistant messages; when both lookups returned the same sequence (the
\* calls interleaved), it holds one round only, the other being overwritten.
C17_LastSaveWins ==
    \A p, q \in procs :
        BothSucceededOn(p, q) =>
            LET persisted == store[input[p].ChatID].Messages
                n == Len(messages[p])
            IN  /\ persisted \in {Saved(p), Saved(q)}
                /\ Len(Saved(p)) = n + 1
                /\ BuildMessages(SubSeq(Saved(p), 1, n)) = messages[p]
                /\ RoleContent(Saved(p)[n]) = <<"user", input[p].UserMessage>>
                /\ RoleContent(Saved(p)[n + 1]) =
                      <<"assistant", ret[p].out[1].Content>>
                /\ messages[p] = messages[q] => Len(persisted) = n + 1

\* Two interleaved rounds with different answers, of which one is persisted.
C17_Witness ==
    \E p, q \in procs :
        /\ BothSucceededOn(p, q)
        /\ messages[p] = messages[q]
        /\ ret[p].out[1].Content = <<"a">>
        /\ ret[q].out[1].Content = <<"a", "b">>
        /\ store[input[p].ChatID].Messages = Saved(p)

\* ----------------------------------------------------------------- C18
\* The answers resp.Recv gave the call of p, and its sends, in order.
StreamEvents(p) == SelectSeq(log[p], LAMBDA e : e.op \in {"Recv", "Send"})

\* C18: the call sends exactly one partial result per fragment received, in
\* receipt order and before it receives again: every fragment is followed at
\* once by its send (unless the call is still blocked at that send), every send
\* follows a fragment, and nothing is sent for io.EOF or for a receive error.
\* uc.Stream is only sent on: its buffer never shrinks by Execute's doing.
C18_OneSendPerFragment ==
    /\ [](\A p \in procs :
            LET ev == StreamEvents(p)
            IN  \A i \in DOMAIN ev :
                   /\ (ev[i].op = "Recv" /\ ev[i].res = "fragment") =>
                         IF i < Len(ev) THEN ev[i + 1].op = "Send"
                         ELSE pc[p] = "send"
                   /\ ev[i].op = "Send" =>
                         /\ i > 1
                         /\ ev[i - 1].op = "Recv"
                         /\ ev[i - 1].res = "fragment"
                   /\ (ev[i].op = "Recv" /\ ev[i].res # "fragment") =>
                         i = Len(ev))
    /\ [][(\E p \in procs : pc'[p] # pc[p]) => Stream' >= Stream]_vars

\* ----------------------------------------------------------------- C19
\* One goroutine's next step inside Execute; a blocked send and a faulted
\* goroutine have none.
Step(p) ==
    \/ FindChatByID(p)
    \/ CreateChat(p)
    \/ AddUserMessage(p)
    \/ CreateChatCompletionStream(p)
    \/ Recv(p)
    \/ Send(p)
    \/ AddAssistantMessage(p)
    \/ SaveChat(p)

\* Every collaborator call returns, the stream is finite (MaxFragments) and a
\* consumer that drains keeps draining: a goroutine that can run does run.
Fairness ==
    /\ \A p \in AllProcs : WF_vars(Step(p))
    /\ WF_vars(Consume)

SpecLive == Init /\ [][Next]_vars /\ Fairness

\* C19: with every collaborator call returning, a finite stream and a consumer
\* draining the sink, every call that starts returns (a result or an error).
C19_EveryCallReturns ==
    consumer => \A p \in AllProcs : (pc[p] = "find") ~> (pc[p] = "done")

\* ----------------------------------------------------------------- C20
\* C20: a fragment whose Choices list is empty raises no fault: no call is
\* ever stopped by the index-out-of-range of response.Choices[0].
C20_EmptyChoicesRaiseNoFault ==
    \A p \in procs : pc[p] # "panic"
====
